---- MODULE Spec2Model ----
(***************************************************************************)
(* SigmaGPT backend: thread/message store behind the chat and thread       *)
(* routes (Backend/controllers/chatController.js, the router in            *)
(* Backend/utils/token.js) and the token lifecycle                         *)
(* (Backend/utils/token.js, Backend/controllers/authController.js).        *)
(*                                                                         *)
(* Strings that the code trims or splits are sequences of one-character    *)
(* strings; identifiers and fixed response messages are TLA+ strings.      *)
(* Every await of a handler is a separate step of the request that runs    *)
(* it, so requests of different slots interleave at the awaits.            *)
(***************************************************************************)
EXTENDS Integers, Sequences, FiniteSets, TLC

VARIABLES
    threads,    \* Thread collection, in insertion (createdAt) order
    messages,   \* Message collection, in insertion order
    nextId,     \* next Message _id
    req,        \* req[s]: the request being handled in slot s
    resp,       \* the response the last step sent (NoResp if none)
    actor,      \* userId whose request took the last step ("" if none)
    users,      \* User collection
    nextUser,   \* number of the next User _id
    now,        \* wall clock, in seconds
    ticks,      \* number of clock advances so far
    sessions,   \* token pairs issued so far: [userId, iat]
    uploads,    \* files in the uploads directory
    timers,     \* pending setTimeout cleanups: the file each will unlink
    rotated,    \* history: [old, new], the refresh token a refresh call
                \* took and the different one it issued
    client      \* the browser page: React state, localStorage and the
                \* calls it has in flight

storeVars == <<threads, messages, nextId>>
authVars == <<users, nextUser, now, ticks, sessions, rotated>>
voiceVars == <<uploads, timers>>
vars == <<threads, messages, nextId, req, resp, actor,
          users, nextUser, now, ticks, sessions, rotated, uploads, timers,
          client>>

----------------------------------------------------------------------------
(* Bounds *)

MaxMsgs == 3
MaxConcMsgs == 4
MaxTicks == 3
MaxSessions == 3
MaxUploads == 2
MaxGateMsgs == 2
MaxGateTicks == 2
MaxNewUsers == 2
MaxPrevChats == 2
MaxTitleMsgs == 4
MaxVoiceTicks == 2
MaxVoiceFiles == 3
MaxTurnMsgs == 4
MaxRegSessions == 3

Slots == {1, 2}
UserIds == {"u1", "u2"}
ThreadIds == {"t1", "t2"}

----------------------------------------------------------------------------
(* Strings as sequences of characters *)

SP == " "

\* String.prototype.trim
RECURSIVE TrimLeft(_)
TrimLeft(s) ==
    IF s = <<>> THEN <<>>
    ELSE IF Head(s) = SP THEN TrimLeft(Tail(s)) ELSE s

RECURSIVE TrimRight(_)
TrimRight(s) ==
    IF s = <<>> THEN <<>>
    ELSE IF s[Len(s)] = SP THEN TrimRight(SubSeq(s, 1, Len(s) - 1)) ELSE s

Trim(s) == TrimRight(TrimLeft(s))

\* String.prototype.split(" "): every blank separates, so leading and
\* repeated blanks give empty pieces
RECURSIVE SplitAcc(_, _, _)
SplitAcc(s, cur, acc) ==
    IF s = <<>> THEN Append(acc, cur)
    ELSE IF Head(s) = SP THEN SplitAcc(Tail(s), <<>>, Append(acc, cur))
    ELSE SplitAcc(Tail(s), Append(cur, Head(s)), acc)

Split(s) == SplitAcc(s, <<>>, <<>>)

\* Array.prototype.slice(0, n)
Slice(a, n) == SubSeq(a, 1, IF Len(a) < n THEN Len(a) ELSE n)

\* Array.prototype.join(" ")
RECURSIVE Join(_)
Join(a) ==
    IF a = <<>> THEN <<>>
    ELSE IF Len(a) = 1 THEN a[1]
    ELSE a[1] \o <<SP>> \o Join(Tail(a))

TitleWords == 5

\* message.split(" ").slice(0, 5).join(" ")
DeriveTitle(message) == Join(Slice(Split(message), TitleWords))

\* data?.choices?.[0]?.message?.content?.trim() || " No reply"
NoReply == <<" ", "N", "o", " ", "r", "e", "p", "l", "y">>

----------------------------------------------------------------------------
(* Documents and requests *)

NoMsg == [id |-> 0, userId |-> "", threadId |-> "", role |-> "",
          content |-> <<>>]

NoToken == [userId |-> "", role |-> "", tokenType |-> "", iat |-> 0,
            exp |-> 0, secret |-> "none"]

NoFetch == [kind |-> "", content |-> <<>>]

\* req.file of a request without an upload
NoFile == <<>>

\* req.body of the /auth routes
NoBody == [name |-> "", email |-> "", password |-> ""]

Idle == [op |-> "idle", pc |-> "idle", token |-> NoToken, userId |-> "",
         threadId |-> "", text |-> <<>>, userMsg |-> NoMsg,
         openaiRes |-> NoFetch,
         botMsg |-> NoMsg, reply |-> <<>>, body |-> NoBody,
         file |-> NoFile]

NoResp == [op |-> "none", userId |-> "", threadId |-> "", status |-> 0,
           message |-> "", reply |-> <<>>, msgs |-> <<>>, thrs |-> <<>>,
           setCookies |-> {}, token |-> NoToken, body |-> NoBody]

\* res.status(st).json({ message: m })
ErrorResp(op, u, t, st, m) ==
    [NoResp EXCEPT !.op = op, !.userId = u, !.threadId = t, !.status = st,
                   !.message = m]

\* the response r to the request that presented token tok
To(tok, r) == [r EXCEPT !.token = tok]

\* the response r to the request whose body was b
ToBody(b, r) == [r EXCEPT !.body = b]

RECURSIVE Reverse(_)
Reverse(seq) ==
    IF seq = <<>> THEN <<>> ELSE Append(Reverse(Tail(seq)), Head(seq))

Range(seq) == {seq[i] : i \in 1..Len(seq)}

----------------------------------------------------------------------------
(* Mongoose models *)

\* MessageSchema: content is trimmed by its setter, then required
MessageDoc(id, u, t, role, content) ==
    [id |-> id, userId |-> u, threadId |-> t, role |-> role,
     content |-> Trim(content)]

MessageValid(doc) == doc.content # <<>>

\* ThreadSchema: title is trimmed, then required; threadId is unique
ThreadDoc(t, title, u) ==
    [threadId |-> t, title |-> Trim(title), userId |-> u]

ThreadValid(doc) == doc.title # <<>>

\* faulty variant: the unique index on { threadId, userId } together
ThreadDuplicateSameOwner(coll, doc) ==
    \E x \in Range(coll) : x.threadId = doc.threadId /\ x.userId = doc.userId

ThreadDuplicate(coll, doc) ==
    \E x \in Range(coll) : x.threadId = doc.threadId

\* Thread.create succeeds unless validation or the unique index rejects it
ThreadCreateOk(coll, doc) == ThreadValid(doc) /\ ~ThreadDuplicate(coll, doc)

\* faulty variant: findOne({ threadId }) without the owner
ThreadFindOneAnyOwner(coll, t, u) ==
    \E x \in Range(coll) : x.threadId = t

\* faulty variant: the lookup that never finds the thread
ThreadFindOneNever(coll, t, u) == FALSE

\* Thread.findOne({ threadId, userId })
ThreadFindOne(coll, t, u) ==
    \E x \in Range(coll) : x.threadId = t /\ x.userId = u

\* faulty variant: sort({ createdAt: -1 }), newest first
MessageSortKeyNewestFirst(m) == 0 - m.id

\* Message.find({ userId, threadId }).sort({ timestamp: 1 }): the schema
\* has no timestamp field, every document has the same (missing) sort key
\* and the stable sort keeps the collection's order
MessageSortKey(m) == 0

RECURSIVE InsertSorted(_, _)
InsertSorted(sorted, m) ==
    IF sorted = <<>> THEN <<m>>
    ELSE IF MessageSortKey(sorted[Len(sorted)]) <= MessageSortKey(m)
         THEN Append(sorted, m)
         ELSE Append(InsertSorted(SubSeq(sorted, 1, Len(sorted) - 1), m),
                     sorted[Len(sorted)])

RECURSIVE SortMessages(_)
SortMessages(seq) ==
    IF seq = <<>> THEN <<>>
    ELSE InsertSorted(SortMessages(SubSeq(seq, 1, Len(seq) - 1)),
                      seq[Len(seq)])

\* faulty variant: find({ threadId }) without the owner
MessageFindAnyOwner(coll, u, t) ==
    LET Mine(m) == m.threadId = t
    IN  SortMessages(SelectSeq(coll, Mine))

MessageFind(coll, u, t) ==
    LET Mine(m) == m.userId = u /\ m.threadId = t
    IN  SortMessages(SelectSeq(coll, Mine))

\* faulty variant: deleteMany({ threadId: thread._id }), the document id
\* of the thread, which no message carries
MessageDeleteManyByDocId(coll, u, t) == coll

\* Message.deleteMany({ threadId, userId })
MessageDeleteMany(coll, u, t) ==
    LET Keep(m) == ~(m.userId = u /\ m.threadId = t)
    IN  SelectSeq(coll, Keep)

\* Thread.findOneAndDelete({ threadId, userId })
ThreadDeleteOne(coll, t, u) ==
    LET Keep(x) == ~(x.threadId = t /\ x.userId = u)
    IN  SelectSeq(coll, Keep)

\* Thread.deleteMany({ userId })
ThreadDeleteMany(coll, u) ==
    LET Keep(x) == x.userId # u
    IN  SelectSeq(coll, Keep)

\* Thread.find({ userId }).sort({ createdAt: -1 })
ThreadFind(coll, u) ==
    LET Mine(x) == x.userId = u
    IN  Reverse(SelectSeq(coll, Mine))

----------------------------------------------------------------------------
(* Token service and session middleware *)

AccessTTL == 900
RefreshTTL == 604800

\* generateAccessToken: jwt.sign({ userId, role }, ACCESS secret, 15m)
generateAccessToken(user, t) ==
    [userId |-> user.id, role |-> user.role, tokenType |-> "", iat |-> t,
     exp |-> t + AccessTTL, secret |-> "access"]

\* faulty variant: the refresh token signed with the access token's 15m
generateRefreshTokenShortLived(user, t) ==
    [userId |-> user.id, role |-> "", tokenType |-> "refresh", iat |-> t,
     exp |-> t + AccessTTL, secret |-> "refresh"]

\* generateRefreshToken: jwt.sign({ userId, tokenType }, REFRESH secret, 7d)
generateRefreshToken(user, t) ==
    [userId |-> user.id, role |-> "", tokenType |-> "refresh", iat |-> t,
     exp |-> t + RefreshTTL, secret |-> "refresh"]

\* jwt.verify(token, secret): the signature was made with that secret and
\* the clock has not reached exp
JwtVerify(token, secret, t) == token.secret = secret /\ t < token.exp

\* a token signed with a key the server does not know
Forged(u, t) ==
    [userId |-> u, role |-> "user", tokenType |-> "", iat |-> t,
     exp |-> t + AccessTTL, secret |-> "forged"]

\* every token a client can present: issued ones, forged ones, none
Tokens ==
    {NoToken}
    \cup {Forged(u, now) : u \in UserIds}
    \cup {generateAccessToken([id |-> x.userId, role |-> "user"], x.iat) :
            x \in sessions}
    \cup {generateRefreshToken([id |-> x.userId, role |-> "user"], x.iat) :
            x \in sessions}

\* verifyToken: cookie first, then bearer header
VerifyToken(cred, t) ==
    LET token == IF cred.cookie # NoToken THEN cred.cookie ELSE cred.bearer
    IN  IF token = NoToken
        THEN [ok |-> FALSE, status |-> 401, message |-> "No token provided",
              userId |-> "", role |-> ""]
        ELSE IF ~JwtVerify(token, "access", t)
        THEN [ok |-> FALSE, status |-> 401,
              message |-> "Invalid or expired token",
              userId |-> "", role |-> ""]
        ELSE [ok |-> TRUE, status |-> 200, message |-> "",
              userId |-> token.userId, role |-> token.role]

\* the token verifyToken looks at
Presented(cred) == IF cred.cookie # NoToken THEN cred.cookie ELSE cred.bearer

\* the middleware's rejection: the handler never runs
Reject(op, auth, cred) ==
    /\ resp' = To(Presented(cred),
                  ErrorResp(op, "", "", auth.status, auth.message))
    /\ actor' = ""
    /\ UNCHANGED <<storeVars, req, authVars, voiceVars, client>>

AllIdle == \A s \in Slots : req[s] = Idle

\* the handler of slot s sends r and ends
Finish(s, r) ==
    /\ resp' = To(req[s].token, r)
    /\ req' = [req EXCEPT ![s] = Idle]

----------------------------------------------------------------------------
(* POST /chat: sendMessage *)

\* what the completion call can do: fetch throws, a non-2xx status with a
\* JSON or a non-JSON body, a 2xx status whose body is not JSON, a 2xx JSON
\* body without choices[0].message.content, or one with that content
FetchFailures == {"network", "status_json", "status_text", "ok_badjson"}
ReplyContents == {<<>>, <<SP>>, <<"r">>}
FetchOutcomes ==
    {[kind |-> k, content |-> <<>>] : k \in FetchFailures}
    \cup {[kind |-> "ok", content |-> c] : c \in ReplyContents}

\* data?.choices?.[0]?.message?.content?.trim() || " No reply"
ExtractReply(content) == IF Trim(content) # <<>> THEN Trim(content) ELSE NoReply

\* validation, then Message.create of the user's message
ChatStart(s, cred, t, m) ==
    /\ req[s] = Idle
    /\ LET auth == VerifyToken(cred, now)
           u == auth.userId
           doc == MessageDoc(nextId, u, t, "user", m)
       IN  IF ~auth.ok THEN Reject("chat", auth, cred)
           ELSE IF m = <<>> \/ t = ""
           THEN /\ resp' = To(Presented(cred),
                              ErrorResp("chat", u, t, 400,
                                        "Message and threadId required"))
                /\ actor' = u
                /\ UNCHANGED <<storeVars, req, authVars, voiceVars, client>>
           ELSE IF ~MessageValid(doc)
           THEN /\ resp' = To(Presented(cred),
                              ErrorResp("chat", u, t, 500, "Chat error"))
                /\ actor' = u
                /\ UNCHANGED <<storeVars, req, authVars, voiceVars, client>>
           ELSE /\ messages' = Append(messages, doc)
                /\ nextId' = nextId + 1
                /\ req' = [req EXCEPT ![s] =
                             [Idle EXCEPT !.op = "chat", !.pc = "fetch",
                                          !.token = Presented(cred),
                                          !.userId = u, !.threadId = t,
                                          !.text = m, !.userMsg = doc]]
                /\ actor' = u
                /\ resp' = NoResp
                /\ UNCHANGED <<threads, authVars, voiceVars, client>>

\* await fetch(OPENAI_API_URL, ...) settles
ChatFetch(s, out) ==
    /\ req[s].op = "chat" /\ req[s].pc = "fetch"
    /\ actor' = req[s].userId
    /\ req' = [req EXCEPT ![s].pc = "fetched", ![s].openaiRes = out]
    /\ resp' = NoResp
    /\ UNCHANGED <<storeVars, authVars, voiceVars, client>>

\* faulty variant: only a thrown fetch counts, the status is not looked at
FetchThrew(out) == out.kind = "network"

\* the call failed: fetch threw, the status is not 2xx, or json() throws
FetchFailed(out) == out.kind # "ok"

\* the handler goes on: the error replies, or Message.create of the reply
ChatReply(s) ==
    /\ req[s].op = "chat" /\ req[s].pc = "fetched"
    /\ actor' = req[s].userId
    /\ LET r == req[s]
           out == r.openaiRes
           reply == ExtractReply(out.content)
           doc == MessageDoc(nextId, r.userId, r.threadId, "assistant", reply)
       IN  IF FetchFailed(out)
           THEN /\ Finish(s, ErrorResp("chat", r.userId, r.threadId, 500,
                                       IF out.kind = "status_json"
                                       THEN "OpenAI API error"
                                       ELSE "Chat error"))
                /\ UNCHANGED <<storeVars, authVars, voiceVars, client>>
           ELSE /\ messages' = Append(messages, doc)
                /\ nextId' = nextId + 1
                /\ req' = [req EXCEPT ![s].pc = "find", ![s].reply = reply,
                                      ![s].botMsg = doc]
                /\ resp' = NoResp
                /\ UNCHANGED <<threads, authVars, voiceVars, client>>

\* res.json({ reply, history: [userMsg, botMsg] })
ChatOk(r) ==
    [NoResp EXCEPT !.op = "chat", !.userId = r.userId,
                   !.threadId = r.threadId, !.status = 200,
                   !.reply = r.reply, !.msgs = <<r.userMsg, r.botMsg>>]

\* Thread.findOne({ threadId, userId })
ChatFindThread(s) ==
    /\ req[s].op = "chat" /\ req[s].pc = "find"
    /\ actor' = req[s].userId
    /\ IF ThreadFindOne(threads, req[s].threadId, req[s].userId)
       THEN Finish(s, ChatOk(req[s]))
       ELSE /\ req' = [req EXCEPT ![s].pc = "create"]
            /\ resp' = NoResp
    /\ UNCHANGED <<storeVars, authVars, voiceVars, client>>

\* Thread.create({ threadId, title, userId })
ChatCreateThread(s) ==
    /\ req[s].op = "chat" /\ req[s].pc = "create"
    /\ actor' = req[s].userId
    /\ LET r == req[s]
           doc == ThreadDoc(r.threadId, DeriveTitle(r.text), r.userId)
       IN  IF ThreadCreateOk(threads, doc)
           THEN /\ threads' = Append(threads, doc)
                /\ Finish(s, ChatOk(r))
           ELSE /\ Finish(s, ErrorResp("chat", r.userId, r.threadId, 500,
                                       "Chat error"))
                /\ UNCHANGED threads
    /\ UNCHANGED <<messages, nextId, authVars, voiceVars, client>>

----------------------------------------------------------------------------
(* GET /history/:threadId, GET /thread, GET /thread/:threadId *)

\* getHistory
GetHistory(cred, t) ==
    /\ LET auth == VerifyToken(cred, now)
           u == auth.userId
           found == MessageFind(messages, u, t)
       IN  IF ~auth.ok THEN Reject("history", auth, cred)
           ELSE /\ resp' = To(Presented(cred),
                              IF found = <<>>
                              THEN ErrorResp("history", u, t, 404,
                                       "No messages found for this thread")
                              ELSE [NoResp EXCEPT !.op = "history",
                                                  !.userId = u,
                                                  !.threadId = t,
                                                  !.status = 200,
                                                  !.msgs = found])
                /\ actor' = u
                /\ UNCHANGED <<storeVars, req, authVars, voiceVars, client>>

\* getThreads
GetThreads(cred) ==
    /\ LET auth == VerifyToken(cred, now)
           u == auth.userId
       IN  IF ~auth.ok THEN Reject("threads", auth, cred)
           ELSE /\ resp' = To(Presented(cred),
                              [NoResp EXCEPT !.op = "threads", !.userId = u,
                                             !.status = 200,
                                             !.thrs = ThreadFind(threads, u)])
                /\ actor' = u
                /\ UNCHANGED <<storeVars, req, authVars, voiceVars, client>>

\* getThreadById: Thread.findOne
GetThreadStart(s, cred, t) ==
    /\ req[s] = Idle
    /\ LET auth == VerifyToken(cred, now)
           u == auth.userId
       IN  IF ~auth.ok THEN Reject("getThread", auth, cred)
           ELSE /\ IF ThreadFindOne(threads, t, u)
                   THEN /\ req' = [req EXCEPT ![s] =
                                     [Idle EXCEPT !.op = "getThread",
                                                  !.token = Presented(cred),
                                                  !.pc = "msgs", !.userId = u,
                                                  !.threadId = t]]
                        /\ resp' = NoResp
                   ELSE /\ resp' = To(Presented(cred),
                                      ErrorResp("getThread", u, t, 404,
                                                "Thread not found"))
                        /\ UNCHANGED req
                /\ actor' = u
                /\ UNCHANGED <<storeVars, authVars, voiceVars, client>>

\* getThreadById: Message.find, res.json(messages)
GetThreadMessages(s) ==
    /\ req[s].op = "getThread" /\ req[s].pc = "msgs"
    /\ actor' = req[s].userId
    /\ Finish(s, [NoResp EXCEPT !.op = "getThread", !.userId = req[s].userId,
                                !.threadId = req[s].threadId, !.status = 200,
                                !.msgs = MessageFind(messages, req[s].userId,
                                                     req[s].threadId)])
    /\ UNCHANGED <<storeVars, authVars, voiceVars, client>>

----------------------------------------------------------------------------
(* DELETE /thread/:threadId, POST /thread, DELETE /thread/clear *)

\* deleteThread: Thread.findOneAndDelete({ threadId, userId })
DeleteThreadStart(s, cred, t) ==
    /\ req[s] = Idle
    /\ LET auth == VerifyToken(cred, now)
           u == auth.userId
       IN  IF ~auth.ok THEN Reject("deleteThread", auth, cred)
           ELSE /\ IF ThreadFindOne(threads, t, u)
                   THEN /\ threads' = ThreadDeleteOne(threads, t, u)
                        /\ req' = [req EXCEPT ![s] =
                                     [Idle EXCEPT !.op = "deleteThread",
                                                  !.token = Presented(cred),
                                                  !.pc = "msgs", !.userId = u,
                                                  !.threadId = t]]
                        /\ resp' = NoResp
                   ELSE /\ resp' = To(Presented(cred),
                                      ErrorResp("deleteThread", u, t, 404,
                                                "Thread not found"))
                        /\ UNCHANGED <<threads, req>>
                /\ actor' = u
                /\ UNCHANGED <<messages, nextId, authVars, voiceVars, client>>

\* deleteThread: Message.deleteMany({ threadId, userId }), then the reply
DeleteThreadMessages(s) ==
    /\ req[s].op = "deleteThread" /\ req[s].pc = "msgs"
    /\ actor' = req[s].userId
    /\ messages' = MessageDeleteMany(messages, req[s].userId, req[s].threadId)
    /\ Finish(s, ErrorResp("deleteThread", req[s].userId, req[s].threadId,
                           200, "Thread deleted successfully"))
    /\ UNCHANGED <<threads, nextId, authVars, voiceVars, client>>

ThreadTitles == {<<>>, <<"T">>}

\* res.status(201).json(thread)
ThreadResp(u, t, coll) ==
    LET This(x) == x.threadId = t /\ x.userId = u
    IN  [NoResp EXCEPT !.op = "createThread", !.userId = u, !.threadId = t,
                       !.status = 201, !.thrs = SelectSeq(coll, This)]

\* createThread: validation, Thread.findOne
CreateThreadStart(s, cred, t, title) ==
    /\ req[s] = Idle
    /\ LET auth == VerifyToken(cred, now)
           u == auth.userId
       IN  IF ~auth.ok THEN Reject("createThread", auth, cred)
           ELSE /\ IF t = "" \/ title = <<>>
                   THEN /\ resp' = To(Presented(cred),
                                      ErrorResp("createThread", u, t, 400,
                                                "ThreadId and title required"))
                        /\ UNCHANGED req
                   ELSE IF ThreadFindOne(threads, t, u)
                   THEN /\ resp' = To(Presented(cred),
                                      ThreadResp(u, t, threads))
                        /\ UNCHANGED req
                   ELSE /\ req' = [req EXCEPT ![s] =
                                     [Idle EXCEPT !.op = "createThread",
                                                  !.token = Presented(cred),
                                                  !.pc = "create",
                                                  !.userId = u,
                                                  !.threadId = t,
                                                  !.text = title]]
                        /\ resp' = NoResp
                /\ actor' = u
                /\ UNCHANGED <<storeVars, authVars, voiceVars, client>>

\* createThread: Thread.create({ threadId, title, userId })
CreateThreadCreate(s) ==
    /\ req[s].op = "createThread" /\ req[s].pc = "create"
    /\ actor' = req[s].userId
    /\ LET r == req[s]
           doc == ThreadDoc(r.threadId, r.text, r.userId)
       IN  IF ThreadCreateOk(threads, doc)
           THEN /\ threads' = Append(threads, doc)
                /\ Finish(s, ThreadResp(r.userId, r.threadId, threads'))
           ELSE /\ Finish(s, ErrorResp("createThread", r.userId, r.threadId,
                                       500, "Failed to create thread"))
                /\ UNCHANGED threads
    /\ UNCHANGED <<messages, nextId, authVars, voiceVars, client>>

\* router.delete("/thread/clear"): Thread.deleteMany({ userId })
ClearThreads(cred) ==
    /\ LET auth == VerifyToken(cred, now)
           u == auth.userId
       IN  IF ~auth.ok THEN Reject("clear", auth, cred)
           ELSE IF u = ""
           THEN /\ resp' = To(Presented(cred),
                              ErrorResp("clear", u, "", 401,
                                        "User ID missing in token"))
                /\ actor' = u
                /\ UNCHANGED <<storeVars, req, authVars, voiceVars, client>>
           ELSE /\ threads' = ThreadDeleteMany(threads, u)
                /\ resp' = To(Presented(cred),
                              ErrorResp("clear", u, "", 200,
                                        " All chats cleared successfully."))
                /\ actor' = u
                /\ UNCHANGED <<messages, nextId, req, authVars,
                               voiceVars, client>>

----------------------------------------------------------------------------
(* /auth routes: login, refresh, logout, me *)

\* the lowercase setter of UserSchema.email
LowerCase(email) ==
    IF email = "ALICE@example.com" THEN "alice@example.com"
    ELSE IF email = "DAVE@example.com" THEN "dave@example.com"
    ELSE email

\* bcrypt.hash(password, 10) and bcrypt.compare(password, hash)
BcryptHash(password) == <<"bcrypt", password>>
BcryptCompare(password, hash) == hash = BcryptHash(password)

\* User.findOne({ email })
UserFindOne(coll, email) == {x \in coll : x.email = LowerCase(email)}

\* User.findById(id)
UserFindById(coll, id) == {x \in coll : x.id = id}

BothCookies == {"accessToken", "refreshToken"}

\* res.cookie("accessToken", ...), res.cookie("refreshToken", ...) and the
\* user in the body
SessionResp(op, tok, user, message) ==
    To(tok, [NoResp EXCEPT !.op = op, !.userId = user.id, !.status = 200,
                           !.message = message, !.setCookies = BothCookies])

\* the trim setter of UserSchema.name
TrimName(name) == IF name = " " THEN "" ELSE name

\* the match validator of UserSchema.email: /.+\@.+\..+/
EmailMatches(email) == email \notin {"", "dave"}

\* the _id of the n-th user created since the start
NewUserIds == <<"u3", "u4", "u5", "u6">>

\* new User({ name, email, password: hashed, role: "user" })
UserDoc(id, name, email, hashed) ==
    [id |-> id, name |-> TrimName(name), email |-> LowerCase(email),
     password |-> hashed, role |-> "user"]

\* the required and match validators of UserSchema
UserValid(doc) == doc.name # "" /\ EmailMatches(doc.email)

\* faulty variant: the collection without the unique index
UserDuplicateNever(coll, doc) == FALSE

\* the unique index on email
UserDuplicate(coll, doc) == \E x \in coll : x.email = doc.email

\* room for the User.create of one more registration
RegisterRoom(max) ==
    nextUser + Cardinality({s \in Slots : req[s].op = "register"}) <= max

\* register: the missing-fields check and User.findOne({ email })
RegisterStart(s, name, email, password) ==
    /\ req[s] = Idle
    /\ actor' = ""
    /\ LET body == [name |-> name, email |-> email, password |-> password]
       IN  IF name = "" \/ email = "" \/ password = ""
           THEN /\ resp' = ToBody(body, ErrorResp("register", "", "", 400,
                                                  "Missing fields"))
                /\ UNCHANGED req
           ELSE IF UserFindOne(users, email) # {}
           THEN /\ resp' = ToBody(body, ErrorResp("register", "", "", 400,
                                                  "Email already registered"))
                /\ UNCHANGED req
           ELSE /\ req' = [req EXCEPT ![s] =
                             [Idle EXCEPT !.op = "register", !.pc = "create",
                                          !.body = body]]
                /\ resp' = NoResp
    /\ UNCHANGED <<storeVars, authVars, voiceVars, client>>

\* register: bcrypt.hash, User.create, the two cookies and the reply; a
\* validation or duplicate-key error of User.create lands in the catch
RegisterCreate(s) ==
    /\ req[s].op = "register" /\ req[s].pc = "create"
    /\ actor' = ""
    /\ LET body == req[s].body
           doc == UserDoc(NewUserIds[nextUser], body.name, body.email,
                          BcryptHash(body.password))
       IN  IF ~UserValid(doc) \/ UserDuplicate(users, doc)
           THEN /\ resp' = ToBody(body, ErrorResp("register", "", "", 500,
                                                  "Server error"))
                /\ UNCHANGED <<users, nextUser, sessions>>
           ELSE /\ users' = users \cup {doc}
                /\ nextUser' = nextUser + 1
                /\ sessions' = sessions \cup {[userId |-> doc.id, iat |-> now]}
                /\ resp' = ToBody(body,
                                  SessionResp("register", NoToken, doc,
                                              "Registration successful"))
    /\ req' = [req EXCEPT ![s] = Idle]
    /\ UNCHANGED <<storeVars, now, ticks, rotated, voiceVars, client>>

\* faulty variant: an unknown email is told apart from a wrong password
LoginReplyTellsApart(coll, email, password) ==
    LET found == UserFindOne(coll, email)
        user == CHOOSE x \in found : TRUE
    IN  IF email = "" \/ password = ""
        THEN [status |-> 400, message |-> "Missing fields"]
        ELSE IF found = {}
        THEN [status |-> 404, message |-> "User not found"]
        ELSE IF ~BcryptCompare(password, user.password)
        THEN [status |-> 400, message |-> "Invalid credentials"]
        ELSE [status |-> 200, message |-> " Login successful"]

\* login: what the handler answers to the body's email and password
LoginReply(coll, email, password) ==
    LET found == UserFindOne(coll, email)
        user == CHOOSE x \in found : TRUE
    IN  IF email = "" \/ password = ""
        THEN [status |-> 400, message |-> "Missing fields"]
        ELSE IF found = {}
        THEN [status |-> 400, message |-> "Invalid credentials"]
        ELSE IF ~BcryptCompare(password, user.password)
        THEN [status |-> 400, message |-> "Invalid credentials"]
        ELSE [status |-> 200, message |-> " Login successful"]

\* login
Login(email, password) ==
    /\ LET body == [name |-> "", email |-> email, password |-> password]
           reply == LoginReply(users, email, password)
           user == CHOOSE x \in UserFindOne(users, email) : TRUE
       IN  IF reply.status # 200
           THEN /\ resp' = ToBody(body, ErrorResp("login", "", "",
                                                  reply.status,
                                                  reply.message))
                /\ UNCHANGED sessions
           ELSE /\ resp' = ToBody(body, SessionResp("login", NoToken, user,
                                                    reply.message))
                /\ sessions' = sessions
                                 \cup {[userId |-> user.id, iat |-> now]}
    /\ actor' = ""
    /\ UNCHANGED <<storeVars, req, users, nextUser, now, ticks, rotated,
                   voiceVars, client>>

\* refresh: the refreshToken cookie, jwt.verify, User.findById, new pair
Refresh(token) ==
    /\ LET found == UserFindById(users, token.userId)
           user == CHOOSE x \in found : TRUE
       IN  IF token = NoToken
           THEN /\ resp' = ErrorResp("refresh", "", "", 401,
                                     "No refresh token")
                /\ UNCHANGED <<sessions, rotated>>
           ELSE IF ~JwtVerify(token, "refresh", now)
           THEN /\ resp' = To(token, ErrorResp("refresh", "", "", 500,
                                               "Server error"))
                /\ UNCHANGED <<sessions, rotated>>
           ELSE IF found = {}
           THEN /\ resp' = To(token, ErrorResp("refresh", "", "", 401,
                                               "User not found"))
                /\ UNCHANGED <<sessions, rotated>>
           ELSE /\ resp' = SessionResp("refresh", token, user,
                                       " Token refreshed")
                /\ sessions' = sessions
                                 \cup {[userId |-> user.id, iat |-> now]}
                /\ rotated' = IF generateRefreshToken(user, now) = token
                              THEN rotated
                              ELSE rotated
                                     \cup {[old |-> token,
                                            new |-> generateRefreshToken(
                                                       user, now)]}
    /\ actor' = ""
    /\ UNCHANGED <<storeVars, req, users, nextUser, now, ticks, voiceVars, client>>

\* logout: clears both cookies
Logout ==
    /\ resp' = ErrorResp("logout", "", "", 200, "Logged out")
    /\ actor' = ""
    /\ UNCHANGED <<storeVars, req, authVars, voiceVars, client>>

\* getCurrentUser behind verifyToken
GetCurrentUser(cred) ==
    /\ LET auth == VerifyToken(cred, now)
           u == auth.userId
       IN  IF ~auth.ok THEN Reject("me", auth, cred)
           ELSE /\ resp' = To(Presented(cred),
                              IF u = ""
                              THEN ErrorResp("me", u, "", 401, "Unauthorized")
                              ELSE IF UserFindById(users, u) = {}
                              THEN ErrorResp("me", u, "", 404,
                                             "User not found")
                              ELSE ErrorResp("me", u, "", 200, ""))
                /\ actor' = u
                /\ UNCHANGED <<storeVars, req, authVars, voiceVars, client>>

\* a user record is removed from the collection (an administrator's act)
RemoveUser(id) ==
    /\ UserFindById(users, id) # {}
    /\ users' = users \ UserFindById(users, id)
    /\ resp' = NoResp
    /\ actor' = ""
    /\ UNCHANGED <<storeVars, req, nextUser, now, ticks, sessions, rotated,
                 voiceVars, client>>

\* time passes
Tick(d) ==
    /\ now' = now + d
    /\ ticks' = ticks + 1
    /\ resp' = NoResp
    /\ actor' = ""
    /\ UNCHANGED <<storeVars, req, users, nextUser, sessions, rotated,
                 voiceVars, client>>

----------------------------------------------------------------------------
(* POST /voice: no verifyToken in front of the handler *)

\* multer's filename: `${Date.now()}-${file.originalname}`
UploadName(t, original) == <<"upload", t, original>>

\* `uploads/reply_${Date.now()}.mp3` and `uploads/fallback_${Date.now()}.mp3`
ReplyName(kind, t) == <<kind, t, "mp3">>

VoiceOutcomes == {"stt_error", "unclear", "unclear_tts_error", "chat_error",
                  "tts_error", "ok"}

\* upload.single("audio"), transcription, completion, speech, reply, and
\* the cleanup timer of the normal path
Voice(cred, hasFile, out) ==
    /\ Cardinality(uploads) + 2 <= MaxUploads
    /\ LET file == UploadName(now, "voice.webm")
           stored == IF hasFile THEN uploads \cup {file} ELSE uploads
           tok == Presented(cred)
       IN  IF ~hasFile
           THEN /\ resp' = To(tok, ErrorResp("voice", "", "", 500,
                                             "No audio file received"))
                /\ UNCHANGED <<uploads, timers>>
           ELSE IF out = "unclear"
           THEN /\ uploads' = stored \cup {ReplyName("fallback", now)}
                /\ resp' = To(tok, ErrorResp("voice", "", "", 200,
                                             "fallback"))
                /\ UNCHANGED timers
           ELSE IF out = "ok"
           THEN /\ uploads' = stored \cup {ReplyName("reply", now)}
                /\ timers' = timers \cup {file}
                /\ resp' = To(tok, ErrorResp("voice", "", "", 200, "reply"))
           ELSE /\ uploads' = stored
                /\ resp' = To(tok, ErrorResp("voice", "", "", 500, out))
                /\ UNCHANGED timers
    /\ actor' = ""
    /\ UNCHANGED <<storeVars, req, authVars, client>>

\* setTimeout(() => fs.unlink(req.file.path, () => {}), 5000)
Cleanup(file) ==
    /\ file \in timers
    /\ timers' = timers \ {file}
    /\ uploads' = uploads \ {file}
    /\ resp' = NoResp
    /\ actor' = ""
    /\ UNCHANGED <<storeVars, req, authVars, client>>

----------------------------------------------------------------------------
(* POST /voice step by step: the upload, then the calls and the reply *)

\* upload.single("audio") has stored the file under multer's name; the
\* handler starts and awaits the transcription
VoiceReceive(s, cred) ==
    /\ req[s] = Idle
    /\ LET file == UploadName(now, "voice.webm")
       IN  /\ uploads' = uploads \cup {file}
           /\ req' = [req EXCEPT ![s] = [Idle EXCEPT !.op = "voice",
                                                     !.pc = "transcribe",
                                                     !.token = Presented(cred),
                                                     !.file = file]]
    /\ resp' = NoResp
    /\ actor' = ""
    /\ UNCHANGED <<storeVars, authVars, timers, client>>

\* "I couldn't hear you clearly. Please say it again!"
FallbackText == <<"f">>

\* res.json({ userText, text, language, audioUrl })
VoiceOk(kind, text) ==
    [ErrorResp("voice", "", "", 200, kind) EXCEPT !.reply = text]

\* the rest of the handler, aiReply being the content of its completion:
\* the fallback reply returns before the setTimeout of the normal path, and
\* the catch block has none
VoiceFinish(s, out, aiReply) ==
    /\ req[s].op = "voice" /\ req[s].pc = "transcribe"
    /\ LET r == req[s]
       IN  IF out = "unclear"
           THEN /\ uploads' = uploads \cup {ReplyName("fallback", now)}
                /\ Finish(s, VoiceOk("fallback", FallbackText))
                /\ UNCHANGED timers
           ELSE IF out = "ok"
           THEN /\ uploads' = uploads \cup {ReplyName("reply", now)}
                /\ timers' = timers \cup {r.file}
                /\ Finish(s, VoiceOk("reply", aiReply))
           ELSE /\ Finish(s, ErrorResp("voice", "", "", 500, out))
                /\ UNCHANGED <<uploads, timers>>
    /\ actor' = ""
    /\ UNCHANGED <<storeVars, authVars, client>>

----------------------------------------------------------------------------
(* The store is unreachable; the voice handler fails while reporting *)

\* the message each handler's catch block sends with status 500
CatchMessage(op) ==
    CASE op = "chat" -> "Chat error"
      [] op = "history" -> "History fetch error"
      [] op = "threads" -> "Failed to fetch threads"
      [] op = "getThread" -> "Failed to fetch thread"
      [] op = "deleteThread" -> "Failed to delete thread"
      [] op = "createThread" -> "Failed to create thread"
      [] op = "clear" -> "Failed to clear chats."
      [] OTHER -> "Server error"

StoreOps == {"chat", "history", "threads", "getThread", "deleteThread",
             "createThread", "clear"}

\* the first store call of a handler rejects: an authenticated request
\* with a valid body gets the catch block's response
StoreDownAtStart(op, cred, t) ==
    /\ LET auth == VerifyToken(cred, now)
           u == auth.userId
           tid == IF op \in {"threads", "clear"} THEN "" ELSE t
       IN  /\ auth.ok
           /\ resp' = To(Presented(cred),
                         ErrorResp(op, u, tid, 500, CatchMessage(op)))
           /\ actor' = u
    /\ UNCHANGED <<storeVars, req, authVars, voiceVars, client>>

\* the handler of slot s is about to call the store
AtStoreCall(r) ==
    \/ r.op = "chat" /\ r.pc = "fetched" /\ ~FetchFailed(r.openaiRes)
    \/ r.op = "chat" /\ r.pc \in {"find", "create"}
    \/ r.op \in {"getThread", "deleteThread"} /\ r.pc = "msgs"
    \/ r.op \in {"createThread", "register"} /\ r.pc = "create"

\* a later store call of the handler of slot s rejects
StoreError(s) ==
    /\ AtStoreCall(req[s])
    /\ actor' = req[s].userId
    /\ Finish(s, ToBody(req[s].body,
                        ErrorResp(req[s].op, req[s].userId, req[s].threadId,
                                  500, CatchMessage(req[s].op))))
    /\ UNCHANGED <<storeVars, authVars, voiceVars, client>>

\* POST /voice, first variant: a call of the speech service throws an error
\* that carries a response, and `await err.response.text()` in the catch
\* block throws too; the handler's promise rejects and nothing is sent
VoiceUnhandled(s, cred) ==
    /\ req[s] = Idle
    /\ Cardinality(uploads) + 2 <= MaxUploads
    /\ req' = [req EXCEPT ![s] = [Idle EXCEPT !.op = "voice",
                                              !.pc = "unhandled",
                                              !.token = Presented(cred)]]
    /\ uploads' = uploads \cup {UploadName(now, "voice.webm")}
    /\ resp' = NoResp
    /\ actor' = ""
    /\ UNCHANGED <<storeVars, authVars, timers, client>>

----------------------------------------------------------------------------
(* The browser page: the session check of AuthProvider *)

\* useState(null): nobody is logged in
NoUser == ""

\* the identity objects the page can hold, named by where each came from:
\* the body of /api/auth/me, the body of /api/auth/refresh, the login form,
\* and the "user" entry localStorage held when the page was opened
MeUser == "me"
RefreshedUser == "refreshed"
FormUser == "form"
CachedUser == "cached"

\* how a fetch ends: res.ok, status 401, another error status, or the
\* promise rejects (no connection)
CallOutcomes == {"ok", "unauthorized", "error", "network"}

NoFlow ==
    [op |-> "", pc |-> "idle", log |-> <<>>, current |-> FALSE]

\* the reply shown: useState(null), the `reply` field of a response body
\* that has none, and the text of a reply
NullReply == <<>>
UndefinedReply == <<"undefined">>
SomeReply == <<"r">>

\* the page before AuthProvider is mounted: user null, loading true
NewClient ==
    [user |-> NoUser, loading |-> TRUE, stored |-> NoUser,
     check |-> "unmounted", checkLog |-> <<>>,
     flow |-> NoFlow, logout |-> "idle", notice |-> "",
     showConfirmModal |-> FALSE, isClearing |-> FALSE, prevChats |-> 0,
     allThreads |-> 0, pending |-> {}, reply |-> NullReply,
     chatLoading |-> FALSE]

\* a call the page issues, and later how it ended
Call(name) == [call |-> name, out |-> "pending"]

Returned(log, out) == [log EXCEPT ![Len(log)].out = out]

\* faulty variant: the fallback forgets setLoading(false)
FallbackStillLoading(c) ==
    [c EXCEPT !.user = IF c.stored # NoUser THEN c.stored ELSE @,
              !.check = "done"]

\* the end of checkUserSession: the localStorage fallback and
\* setLoading(false)
Fallback(c) ==
    [c EXCEPT !.user = IF c.stored # NoUser THEN c.stored ELSE @,
              !.loading = FALSE,
              !.check = "done"]

\* setUser(identity), localStorage.setItem, setLoading(false), return
Restored(c, identity) ==
    [c EXCEPT !.user = identity, !.stored = identity, !.loading = FALSE,
              !.check = "done"]

\* useEffect(() => { checkUserSession(); }, []): the first /api/auth/me
AfterMount(c) ==
    [c EXCEPT !.check = "me", !.checkLog = <<Call("me")>>]

\* faulty variant: the first 401 goes to /api/auth/refresh without a retry
AfterMeNoRetry(c, out) ==
    LET c1 == [c EXCEPT !.checkLog = Returned(@, out)]
    IN  IF out = "ok" THEN Restored(c1, MeUser)
        ELSE IF out = "unauthorized"
        THEN [c1 EXCEPT !.check = "refresh",
                        !.checkLog = Append(@, Call("refresh"))]
        ELSE Fallback(c1)

\* checkUserSession(isRetry) once its /api/auth/me call has ended: a 401
\* schedules the retry the first time and calls /api/auth/refresh the
\* second time
AfterMe(c, out) ==
    LET isRetry == c.check = "me_retry"
        c1 == [c EXCEPT !.checkLog = Returned(@, out)]
    IN  IF out = "ok" THEN Restored(c1, MeUser)
        ELSE IF out = "unauthorized" /\ ~isRetry
        THEN [c1 EXCEPT !.check = "wait"]
        ELSE IF out = "unauthorized"
        THEN [c1 EXCEPT !.check = "refresh",
                        !.checkLog = Append(@, Call("refresh"))]
        ELSE Fallback(c1)

\* setTimeout(() => checkUserSession(true), 500) fires
AfterRetryTimer(c) ==
    [c EXCEPT !.check = "me_retry", !.checkLog = Append(@, Call("me"))]

\* checkUserSession once its /api/auth/refresh call has ended
AfterCheckRefresh(c, out) ==
    LET c1 == [c EXCEPT !.checkLog = Returned(@, out)]
    IN  IF out = "ok" THEN Restored(c1, RefreshedUser) ELSE Fallback(c1)

\* the two thread fetches that are effects on [user]
EffectOps == {"getAllThreads", "fetchThreads"}

\* the effects on [user] after a step from c to d that changed the user:
\* with user null App, getAllThreads and fetchThreads reset the chat and
\* return; otherwise the two fetches are due
UserEffect(c, d) ==
    IF d.user = c.user THEN d
    ELSE IF d.user = NoUser
    THEN [d EXCEPT !.prevChats = 0, !.allThreads = 0, !.pending = {},
                   !.reply = NullReply]
    ELSE [d EXCEPT !.pending = EffectOps]

serverVars == <<threads, messages, nextId, req, resp, actor, users,
                nextUser, now, ticks, sessions, rotated, uploads, timers>>

Mount ==
    /\ client.check = "unmounted"
    /\ client' = AfterMount(client)
    /\ UNCHANGED serverVars

MeReturns(out) ==
    /\ client.check \in {"me", "me_retry"}
    /\ client' = UserEffect(client, AfterMe(client, out))
    /\ UNCHANGED serverVars

RetryTimer ==
    /\ client.check = "wait"
    /\ client' = AfterRetryTimer(client)
    /\ UNCHANGED serverVars

CheckRefreshReturns(out) ==
    /\ client.check = "refresh"
    /\ client' = UserEffect(client, AfterCheckRefresh(client, out))
    /\ UNCHANGED serverVars

\* one step of the session check
CheckStep ==
    \/ Mount
    \/ \E out \in CallOutcomes : MeReturns(out)
    \/ RetryTimer
    \/ \E out \in CallOutcomes : CheckRefreshReturns(out)

----------------------------------------------------------------------------
(* The browser page: login, logout and the authenticated fetches *)

\* login(userData) of AuthProvider
AfterLogin(c) == [c EXCEPT !.user = FormUser, !.stored = FormUser]

\* logout() up to `await fetch("/api/auth/logout")`
AfterLogoutCalled(c) == [c EXCEPT !.logout = "calling"]

\* faulty variant: no try/catch around the fetch of logout()
AfterLogoutUncaught(c, out) ==
    IF out = "network"
    THEN [c EXCEPT !.logout = out]
    ELSE [c EXCEPT !.user = NoUser, !.stored = NoUser, !.logout = out]

\* logout() once its fetch has ended: a rejection is caught and logged, an
\* error status is not looked at; setUser(null), localStorage.removeItem.
\* The logout field then tells how the call ended.
AfterLogout(c, out) ==
    [c EXCEPT !.user = NoUser, !.stored = NoUser, !.logout = out]

SessionExpired == "Session expired. Please log in again."

\* the fetches that answer a 401 with a call of /api/auth/refresh
SidebarOps == {"getAllThreads", "changeThread", "deleteThread"}
RefreshingOps == SidebarOps \cup {"fetchThreads", "getReply"}

\* of those, the ones that show the toast before they call logout()
NotifyingOps == {"fetchThreads", "getReply"}

\* confirmClearChats and the /api/chat call of the voice turn have no
\* branch on status 401
FetchOps == RefreshingOps \cup {"confirmClearChats", "voiceSave"}

\* the entries a thread switch loads, and the two of a voice turn
LoadedChats == 2

\* the entries of a thread list that was fetched
LoadedThreads == 1

\* the function up to its first await; `current` is
\* threadId === currThreadId of deleteThread
AfterFetchStart(c, op, current) ==
    [c EXCEPT !.flow = [op |-> op, pc |-> "request", log |-> <<Call(op)>>,
                        current |-> current],
              !.prevChats = IF op = "getReply" THEN @ + 1
                            ELSE IF op = "voiceSave" THEN @ + 2
                            ELSE @,
              !.reply = IF op = "voiceSave" THEN SomeReply ELSE @,
              !.chatLoading = IF op = "getReply" THEN TRUE ELSE @,
              !.isClearing = IF op = "confirmClearChats" THEN TRUE ELSE @]

\* the rest of the function once the response it works with is known
Finished(c, out) ==
    LET op == c.flow.op
        d == [c EXCEPT !.flow = NoFlow]
    IN  IF op = "getReply"
        THEN [d EXCEPT !.prevChats = IF out = "network" THEN @ ELSE @ + 1,
                       !.reply = IF out = "network" THEN @
                                 ELSE IF out = "ok" THEN SomeReply
                                 ELSE UndefinedReply,
                       !.chatLoading = FALSE]
        ELSE IF op = "getAllThreads"
        THEN [d EXCEPT !.allThreads = IF out = "ok" THEN LoadedThreads ELSE @]
        ELSE IF op = "fetchThreads"
        THEN [d EXCEPT !.allThreads = IF out = "ok" THEN LoadedThreads ELSE @,
                       !.prevChats = IF out = "network" THEN 0 ELSE @]
        ELSE IF op = "changeThread"
        THEN [d EXCEPT !.prevChats = IF out = "ok" THEN LoadedChats ELSE @,
                       !.reply = IF out = "ok" THEN NullReply ELSE @]
        ELSE IF op = "deleteThread"
        THEN [d EXCEPT !.allThreads = IF out = "ok" THEN 0 ELSE @,
                       !.prevChats = IF out = "ok" /\ c.flow.current
                                      THEN 0 ELSE @,
                       !.reply = IF out = "ok" /\ c.flow.current
                                 THEN NullReply ELSE @]
        ELSE IF op = "confirmClearChats"
        THEN [d EXCEPT !.prevChats = IF out = "ok" THEN 0 ELSE @,
                       !.allThreads = IF out = "ok" THEN 0 ELSE @,
                       !.reply = IF out = "ok" THEN NullReply ELSE @,
                       !.notice = IF out = "ok"
                                  THEN "All chat history cleared!"
                                  ELSE "Failed to clear chat history!",
                       !.isClearing = FALSE,
                       !.showConfirmModal = FALSE]
        ELSE d

\* the first response arrives
AfterResponse(c, out) ==
    LET c1 == [c EXCEPT !.flow.log = Returned(@, out)]
    IN  IF out = "unauthorized" /\ c.flow.op \in RefreshingOps
        THEN [c1 EXCEPT !.flow.pc = "refresh",
                        !.flow.log = Append(@, Call("refresh"))]
        ELSE Finished(c1, out)

\* faulty variant: a failed refresh returns without calling logout()
AfterRefreshNoLogout(c, out) ==
    LET op == c.flow.op
        c1 == [c EXCEPT !.flow.log = Returned(@, out)]
    IN  IF out = "ok"
        THEN [c1 EXCEPT !.flow.pc = "retry",
                        !.flow.log = Append(@, Call(op))]
        ELSE [c EXCEPT !.flow = NoFlow, !.chatLoading = FALSE]

\* the refresh call ends: refresh.ok repeats the request; any other status
\* calls logout() (not awaited) and returns; a rejection goes to the catch
AfterRefresh(c, out) ==
    LET op == c.flow.op
        c1 == [c EXCEPT !.flow.log = Returned(@, out)]
    IN  IF out = "ok"
        THEN [c1 EXCEPT !.flow.pc = "retry",
                        !.flow.log = Append(@, Call(op))]
        ELSE IF out = "network"
        THEN [c EXCEPT !.flow = NoFlow, !.chatLoading = FALSE]
        ELSE [c EXCEPT !.flow = NoFlow,
                       !.chatLoading = FALSE,
                       !.logout = "calling",
                       !.notice = IF op \in NotifyingOps
                                  THEN SessionExpired ELSE @,
                       !.prevChats = IF op \in SidebarOps THEN 0 ELSE @,
                       !.allThreads = IF op \in SidebarOps THEN 0 ELSE @,
                       !.reply = IF op \in SidebarOps THEN NullReply ELSE @]

\* the repeated request ends
AfterRetry(c, out) ==
    Finished([c EXCEPT !.flow.log = Returned(@, out)], out)

\* faulty variant: handleClearHistory without the check of user
AfterClearHistoryAnyone(c) == [c EXCEPT !.showConfirmModal = TRUE]

\* handleClearHistory
AfterClearHistory(c) ==
    IF c.user = NoUser
    THEN [c EXCEPT !.notice = "Please login first!"]
    ELSE [c EXCEPT !.showConfirmModal = TRUE]

\* the Cancel button: setShowConfirmModal(false)
AfterCancel(c) == [c EXCEPT !.showConfirmModal = FALSE]

LoginForm ==
    /\ client.check # "unmounted"
    /\ client' = UserEffect(client, AfterLogin(client))
    /\ UNCHANGED serverVars

\* the Logout item of the menu, rendered only while user is set
LogoutClicked ==
    /\ client.check # "unmounted"
    /\ client.user # NoUser
    /\ client' = AfterLogoutCalled(client)
    /\ UNCHANGED serverVars

LogoutReturns(out) ==
    /\ client.logout = "calling"
    /\ client' = UserEffect(client, AfterLogout(client, out))
    /\ UNCHANGED serverVars

\* an effect on [user] runs its fetch
EffectStart(op) ==
    /\ op \in client.pending
    /\ client.flow.pc = "idle"
    /\ client' = [AfterFetchStart(client, op, FALSE)
                     EXCEPT !.pending = @ \ {op}]
    /\ UNCHANGED serverVars

\* a click or a voice turn starts a fetch, once the effects have run; every
\* function returns at once when user is null; one fetch at a time
FetchStart(op, current) ==
    /\ client.user # NoUser
    /\ client.pending = {}
    /\ client.flow.pc = "idle"
    /\ op \in FetchOps \ {"confirmClearChats", "fetchThreads"}
    /\ current => op = "deleteThread"
    /\ op = "getReply" => client.prevChats + 2 <= MaxPrevChats
    /\ op = "voiceSave" => client.prevChats + 2 <= MaxPrevChats
    /\ client' = AfterFetchStart(client, op, current)
    /\ UNCHANGED serverVars

ResponseReturns(out) ==
    /\ client.flow.pc = "request"
    /\ client' = AfterResponse(client, out)
    /\ UNCHANGED serverVars

RefreshReturns(out) ==
    /\ client.flow.pc = "refresh"
    /\ client' = AfterRefresh(client, out)
    /\ UNCHANGED serverVars

RetryReturns(out) ==
    /\ client.flow.pc = "retry"
    /\ client' = AfterRetry(client, out)
    /\ UNCHANGED serverVars

\* the stop listener once POST /api/voice is answered: an error status
\* throws; otherwise the two entries are appended, the text is shown and
\* POST /api/chat is sent to save the turn
VoiceErrorText == <<"e">>

AfterVoiceReply(c, r) ==
    IF r.status # 200
    THEN [c EXCEPT !.reply = VoiceErrorText]
    ELSE [AfterFetchStart(c, "voiceSave", FALSE) EXCEPT !.reply = r.reply]

\* the outcome a fetch sees for a response of the server
OutcomeOf(r) ==
    IF r.status = 200 THEN "ok"
    ELSE IF r.status = 401 THEN "unauthorized"
    ELSE "error"

\* the answer of POST /api/voice reaches the page
VoiceAnswered ==
    /\ resp.op = "voice"
    /\ client.user # NoUser
    /\ client.flow.pc = "idle"
    /\ client.prevChats + 2 <= MaxPrevChats
    /\ client' = AfterVoiceReply(client, resp)
    /\ UNCHANGED serverVars

\* the answer of the POST /api/chat that saves the turn reaches the page
SaveAnswered ==
    /\ resp.op = "chat"
    /\ client.flow.op = "voiceSave"
    /\ ResponseReturns(OutcomeOf(resp))

\* the "Clear history" item of the menu
ClearHistoryClicked ==
    /\ client.check # "unmounted"
    /\ client' = AfterClearHistory(client)
    /\ UNCHANGED serverVars

\* both buttons of the dialog are disabled while isClearing
CancelClicked ==
    /\ client.showConfirmModal
    /\ ~client.isClearing
    /\ client' = AfterCancel(client)
    /\ UNCHANGED serverVars

ConfirmClicked ==
    /\ client.showConfirmModal
    /\ ~client.isClearing
    /\ client.pending = {}
    /\ client.flow.pc = "idle"
    /\ client' = AfterFetchStart(client, "confirmClearChats", FALSE)
    /\ UNCHANGED serverVars

----------------------------------------------------------------------------
(* The thread and message store under requests of logged-in users *)

RegisteredUsers ==
    {[id |-> "u1", name |-> "Alice", email |-> "alice@example.com",
      password |-> <<"bcrypt", "pw1">>, role |-> "user"],
     [id |-> "u2", name |-> "Bob", email |-> "bob@example.com",
      password |-> <<"bcrypt", "pw2">>, role |-> "user"]}

\* two registered users, each holding the token pair of a login at time 0
Init ==
    /\ threads = <<>>
    /\ messages = <<>>
    /\ nextId = 1
    /\ req = [s \in Slots |-> Idle]
    /\ resp = NoResp
    /\ actor = ""
    /\ users = RegisteredUsers
    /\ nextUser = 1
    /\ now = 0
    /\ ticks = 0
    /\ sessions = {[userId |-> u, iat |-> 0] : u \in UserIds}
    /\ rotated = {}
    /\ uploads = {}
    /\ timers = {}
    /\ client = NewClient

\* the credentials of the logged-in users: the access cookie of a session
SessionCreds ==
    {[cookie |-> generateAccessToken([id |-> x.userId, role |-> "user"],
                                     x.iat),
      bearer |-> NoToken] : x \in sessions}

BodyThreadIds == ThreadIds \cup {""}
ChatTexts == {<<>>, <<"a">>}
ChatReplies == {[kind |-> k, content |-> <<>>] : k \in FetchFailures}
               \cup {[kind |-> "ok", content |-> <<"r">>]}
\* the Message _ids still to be used by the chat requests in flight
Reserved == Cardinality({s \in Slots : req[s].pc \in {"fetch", "fetched"}})

\* room for the two messages of one more chat request
ChatRoom(max) == nextId + Reserved + 1 <= max

StartRequest(s, creds, tids, texts, titles, max) ==
    \E cred \in creds :
        \/ /\ ChatRoom(max)
           /\ \E t \in tids, m \in texts : ChatStart(s, cred, t, m)
        \/ \E t \in tids \ {""} : GetThreadStart(s, cred, t)
        \/ \E t \in tids \ {""} : DeleteThreadStart(s, cred, t)
        \/ \E t \in tids, title \in titles :
              CreateThreadStart(s, cred, t, title)

OneStepRequest(creds, tids) ==
    \E cred \in creds :
        \/ \E t \in tids \ {""} : GetHistory(cred, t)
        \/ GetThreads(cred)
        \/ ClearThreads(cred)

Continue(s, outs) ==
    \/ \E out \in outs : ChatFetch(s, out)
    \/ ChatReply(s)
    \/ ChatFindThread(s)
    \/ ChatCreateThread(s)
    \/ GetThreadMessages(s)
    \/ DeleteThreadMessages(s)
    \/ CreateThreadCreate(s)

\* one request at a time: a request starts when none is being handled
Next ==
    \/ AllIdle /\ StartRequest(1, SessionCreds, BodyThreadIds, ChatTexts,
                               ThreadTitles, MaxMsgs)
    \/ AllIdle /\ OneStepRequest(SessionCreds, BodyThreadIds)
    \/ Continue(1, ChatReplies)

Spec == Init /\ [][Next]_vars

\* two requests with valid bodies on one thread id interleave at their
\* awaits; the second slot is taken while the first is busy
ContestedIds == {"t1"}
ConcTexts == {<<"a">>}
ConcTitles == {<<"T">>}
ConcReplies == {[kind |-> "network", content |-> <<>>],
                [kind |-> "ok", content |-> <<"r">>]}

NextConc ==
    \/ StartRequest(1, SessionCreds, ContestedIds, ConcTexts, ConcTitles,
                    MaxConcMsgs)
    \/ req[1] # Idle /\ StartRequest(2, SessionCreds, ContestedIds,
                                     ConcTexts, ConcTitles, MaxConcMsgs)
    \/ OneStepRequest(SessionCreds, ContestedIds)
    \/ \E s \in Slots : Continue(s, ConcReplies)

SpecConc == Init /\ [][NextConc]_vars

----------------------------------------------------------------------------
(* The token lifecycle and the protected routes under any credentials *)

TickSteps == {1, RefreshTTL - 1}
\* no address, a registered one in two spellings, an unknown one
Emails == {"", "alice@example.com", "ALICE@example.com", "carol@example.com"}
Passwords == {"", "pw1", "pw2"}

\* logins, refreshes and time: which tokens /auth/refresh takes
NextTokens ==
    \/ ticks < MaxTicks /\ \E d \in TickSteps : Tick(d)
    \/ /\ \E e \in Emails, pw \in Passwords : Login(e, pw)
       /\ Cardinality(sessions') <= MaxSessions
    \/ /\ \E tok \in Tokens : Refresh(tok)
       /\ Cardinality(sessions') <= MaxSessions
    \/ Logout
    \/ \E id \in UserIds : RemoveUser(id)

\* the registered users before anyone has logged in
InitTokens ==
    /\ threads = <<>>
    /\ messages = <<>>
    /\ nextId = 1
    /\ req = [s \in Slots |-> Idle]
    /\ resp = NoResp
    /\ actor = ""
    /\ users = RegisteredUsers
    /\ nextUser = 1
    /\ now = 0
    /\ ticks = 0
    /\ sessions = {}
    /\ rotated = {}
    /\ uploads = {}
    /\ timers = {}
    /\ client = NewClient

SpecTokens == InitTokens /\ [][NextTokens]_vars

\* no field, a new address in two spellings, a malformed one, a taken one
RegNames == {"", " ", "Dave"}
RegEmails == {"", "dave@example.com", "DAVE@example.com", "dave",
             "alice@example.com"}
RegPasswords == {"", "pw3"}

\* registrations that interleave at their awaits, and logins
NextRegister ==
    \/ \E s \in Slots :
          /\ RegisterRoom(MaxNewUsers)
          /\ \E name \in RegNames, email \in RegEmails,
                password \in RegPasswords :
                RegisterStart(s, name, email, password)
    \/ \E s \in Slots : RegisterCreate(s)
    \/ /\ \E e \in RegEmails, pw \in RegPasswords \cup Passwords :
             Login(e, pw)
       /\ Cardinality(sessions') <= MaxRegSessions

SpecRegister == InitTokens /\ [][NextRegister]_vars

GateTickSteps == {2, AccessTTL - 1}
\* no credential, a forged token, the refresh token in the access cookie,
\* and the access tokens as cookie or as bearer header
GateCreds ==
    {[cookie |-> NoToken, bearer |-> NoToken],
     [cookie |-> Forged("u1", now), bearer |-> NoToken]}
    \cup {[cookie |-> generateRefreshToken([id |-> x.userId,
                                             role |-> "user"], x.iat),
           bearer |-> NoToken] : x \in {y \in sessions : y.userId = "u2"}}
    \cup SessionCreds
    \cup {[cookie |-> NoToken, bearer |-> c.cookie] :
            c \in {y \in SessionCreds : y.cookie.userId = "u1"}}
GateVoice == {"stt_error", "unclear", "ok"}
GateIds == {"t1"}
GateTexts == {<<"a">>}
GateTitles == {<<"T">>}
GateReplies == {[kind |-> "ok", content |-> <<"r">>]}

\* every route that takes a credential, called with any token at any time
NextGate ==
    \/ ticks < MaxGateTicks /\ \E d \in GateTickSteps : Tick(d)
    \/ AllIdle /\ StartRequest(1, GateCreds, GateIds, GateTexts, GateTitles,
                               MaxGateMsgs)
    \/ AllIdle /\ OneStepRequest(GateCreds, GateIds)
    \/ Continue(1, GateReplies)
    \/ \E cred \in GateCreds : GetCurrentUser(cred)
    \/ \E cred \in GateCreds :
          \/ Voice(cred, FALSE, "ok")
          \/ \E out \in GateVoice : Voice(cred, TRUE, out)
    \/ \E file \in timers : Cleanup(file)

SpecGate == Init /\ [][NextGate]_vars

----------------------------------------------------------------------------
(* Every route while the store and the remote services can fail *)

FailOps == StoreOps
FailVoice == {"stt_error", "unclear", "unclear_tts_error", "chat_error",
              "tts_error", "ok"}

\* requests one at a time in slot 1; slot 2 keeps a request that was never
\* answered
NextFail ==
    \/ req[1] = Idle /\ StartRequest(1, SessionCreds, GateIds, GateTexts,
                                     GateTitles, MaxGateMsgs)
    \/ req[1] = Idle /\ OneStepRequest(SessionCreds, GateIds)
    \/ Continue(1, ChatReplies)
    \/ /\ req[1] = Idle
       /\ \E op \in FailOps, cred \in SessionCreds, t \in GateIds :
             StoreDownAtStart(op, cred, t)
    \/ StoreError(1)
    \/ \E cred \in SessionCreds :
          \/ Voice(cred, FALSE, "ok")
          \/ \E out \in FailVoice : Voice(cred, TRUE, out)
    \/ \E cred \in SessionCreds : VoiceUnhandled(2, cred)
    \/ \E file \in timers : Cleanup(file)

SpecFail == Init /\ [][NextFail]_vars

----------------------------------------------------------------------------
(* The page from the moment it is opened, whatever the server answers *)

\* localStorage holds no "user" entry or the one of an earlier visit
InitClient ==
    /\ threads = <<>>
    /\ messages = <<>>
    /\ nextId = 1
    /\ req = [s \in Slots |-> Idle]
    /\ resp = NoResp
    /\ actor = ""
    /\ users = RegisteredUsers
    /\ nextUser = 1
    /\ now = 0
    /\ ticks = 0
    /\ sessions = {}
    /\ rotated = {}
    /\ uploads = {}
    /\ timers = {}
    /\ client \in {[NewClient EXCEPT !.stored = u] :
                      u \in {NoUser, CachedUser}}

LogoutOutcomes == {"ok", "error", "network"}

NextClient ==
    \/ CheckStep
    \/ LoginForm
    \/ LogoutClicked
    \/ \E out \in LogoutOutcomes : LogoutReturns(out)
    \/ \E op \in EffectOps : EffectStart(op)
    \/ \E op \in FetchOps, current \in BOOLEAN : FetchStart(op, current)
    \/ \E out \in CallOutcomes : ResponseReturns(out)
    \/ \E out \in CallOutcomes : RefreshReturns(out)
    \/ \E out \in CallOutcomes : RetryReturns(out)
    \/ ClearHistoryClicked
    \/ CancelClicked
    \/ ConfirmClicked

SpecClient == InitClient /\ [][NextClient]_vars

\* every call of the session check returns and its timer fires
SpecClientLive == SpecClient /\ WF_vars(CheckStep)

----------------------------------------------------------------------------
(* POST /chat with blank, padded and long messages, one request at a time *)

TitleTexts ==
    {<<>>, <<SP>>, <<"a">>, <<SP, "a">>, <<"a", SP, SP, "b">>,
     <<SP, SP, SP, SP, SP, "x">>,
     <<"a", SP, "b", SP, "c", SP, "d", SP, "e", SP, "f">>}

TitleReplies == {[kind |-> "status_json", content |-> <<>>],
                 [kind |-> "ok", content |-> <<"r">>]}

NextTitles ==
    \/ /\ AllIdle
       /\ ChatRoom(MaxTitleMsgs)
       /\ \E cred \in SessionCreds, t \in BodyThreadIds, m \in TitleTexts :
             ChatStart(1, cred, t, m)
    \/ \E out \in TitleReplies : ChatFetch(1, out)
    \/ ChatReply(1)
    \/ ChatFindThread(1)
    \/ ChatCreateThread(1)

SpecTitles == Init /\ [][NextTitles]_vars

----------------------------------------------------------------------------
(* Voice requests of two clients at once *)

\* the uploaded files of the requests being handled
InFlightFiles == {req[s].file : s \in {x \in Slots : req[x].op = "voice"}}

NextVoice ==
    \/ ticks < MaxVoiceTicks /\ Tick(1)
    \/ /\ Cardinality(uploads) < MaxVoiceFiles
       /\ \E s \in Slots, cred \in SessionCreds : VoiceReceive(s, cred)
    \/ \E s \in Slots, out \in VoiceOutcomes :
          VoiceFinish(s, out, <<"v">>)
    \/ \E file \in timers : Cleanup(file)

SpecVoice == Init /\ [][NextVoice]_vars

----------------------------------------------------------------------------
(* The page while the server rejects the access and the refresh token *)

\* every call is answered, and /api/auth/me, /api/auth/refresh and the
\* authenticated routes are answered 401
NextRejected ==
    \/ Mount
    \/ MeReturns("unauthorized")
    \/ RetryTimer
    \/ CheckRefreshReturns("unauthorized")
    \/ LogoutClicked
    \/ \E out \in LogoutOutcomes \ {"network"} : LogoutReturns(out)
    \/ \E op \in EffectOps : EffectStart(op)
    \/ \E op \in FetchOps, current \in BOOLEAN : FetchStart(op, current)
    \/ ResponseReturns("unauthorized")
    \/ RefreshReturns("unauthorized")
    \/ ClearHistoryClicked
    \/ CancelClicked
    \/ ConfirmClicked

\* what the page has in flight is answered, its timer fires and its
\* effects run
ClientProgress ==
    /\ WF_vars(CheckStep)
    /\ WF_vars(\E op \in EffectOps : EffectStart(op))
    /\ WF_vars(ResponseReturns("unauthorized"))
    /\ WF_vars(RefreshReturns("unauthorized"))
    /\ WF_vars(\E out \in LogoutOutcomes \ {"network"} : LogoutReturns(out))

SpecRejected == InitClient /\ [][NextRejected]_vars /\ ClientProgress

----------------------------------------------------------------------------
(* A voice turn of a logged-in page, from the recording to the saved chat *)

LoggedInClient ==
    [NewClient EXCEPT !.user = FormUser, !.stored = FormUser,
                      !.loading = FALSE, !.check = "done",
                      !.checkLog = <<[call |-> "me",
                                      out |-> "unauthorized"],
                                     [call |-> "me",
                                      out |-> "unauthorized"],
                                     [call |-> "refresh",
                                      out |-> "unauthorized"]>>]

InitTurn ==
    /\ threads = <<>>
    /\ messages = <<>>
    /\ nextId = 1
    /\ req = [s \in Slots |-> Idle]
    /\ resp = NoResp
    /\ actor = ""
    /\ users = RegisteredUsers
    /\ nextUser = 1
    /\ now = 0
    /\ ticks = 0
    /\ sessions = {[userId |-> u, iat |-> 0] : u \in UserIds}
    /\ rotated = {}
    /\ uploads = {}
    /\ timers = {}
    /\ client = LoggedInClient

TurnVoice == {"stt_error", "unclear", "ok"}
TurnTexts == {<<"a">>, <<"r">>}
TurnReplies == {[kind |-> "status_json", content |-> <<>>]}
               \cup {[kind |-> "ok", content |-> c] : c \in TurnTexts}

\* `message: data.userText || "Voice Input"` with the cookies of the page
SaveArrives ==
    /\ client.flow.op = "voiceSave"
    /\ client.flow.pc = "request"
    /\ resp.op = "voice"
    /\ AllIdle
    /\ ChatRoom(MaxTurnMsgs)
    /\ \E cred \in SessionCreds, t \in ThreadIds :
          /\ Presented(cred) = resp.token
          /\ ChatStart(1, cred, t, <<"a">>)

NextTurn ==
    \/ /\ AllIdle
       /\ client.flow.pc = "idle"
       /\ \E cred \in SessionCreds : VoiceReceive(1, cred)
    \/ \E out \in TurnVoice, aiReply \in TurnTexts :
          VoiceFinish(1, out, aiReply)
    \/ VoiceAnswered
    \/ SaveArrives
    \/ \E out \in TurnReplies : ChatFetch(1, out)
    \/ ChatReply(1)
    \/ ChatFindThread(1)
    \/ ChatCreateThread(1)
    \/ SaveAnswered
    \/ \E file \in timers : Cleanup(file)

SpecTurn == InitTurn /\ [][NextTurn]_vars

----------------------------------------------------------------------------
(* Properties of the thread and message store *)

\* user u has a Thread record with id t
OwnsThread(coll, u, t) ==
    \E i \in 1..Len(coll) : coll[i].threadId = t /\ coll[i].userId = u

\* the stored messages of user u in thread t
StoredOf(coll, u, t) ==
    {coll[i] : i \in {j \in 1..Len(coll) :
                        coll[j].userId = u /\ coll[j].threadId = t}}

OwnedThreads(coll, u) ==
    {coll[i] : i \in {j \in 1..Len(coll) : coll[j].userId = u}}

OwnedMessages(coll, u) ==
    {coll[i] : i \in {j \in 1..Len(coll) : coll[j].userId = u}}

ClearDone == resp.op = "clear" /\ resp.status = 200

\* C1: when DELETE /thread/clear has succeeded for user U, no Thread and no
\* Message with userId = U is left in the store
C1_ClearRemovesThreadsAndMessages ==
    ClearDone =>
        /\ OwnedThreads(threads, resp.userId) = {}
        /\ OwnedMessages(messages, resp.userId) = {}

DeleteDone == resp.op = "deleteThread" /\ resp.status = 200

\* C2: when DELETE /thread/T has succeeded for user U, no message of (U, T)
\* is stored, and the GET /thread/T by U that follows answers 404: it finds
\* no thread and never goes on to read messages
C2_DeleteRemovesMessages ==
    [][/\ (resp'.op = "deleteThread" /\ resp'.status = 200)
            => StoredOf(messages', resp'.userId, resp'.threadId) = {}
       /\ DeleteDone
            => /\ \A s \in Slots :
                    ~(/\ req'[s].op = "getThread"
                      /\ req'[s].userId = resp.userId
                      /\ req'[s].threadId = resp.threadId)
               /\ (/\ resp'.op = "getThread"
                   /\ resp'.userId = resp.userId
                   /\ resp'.threadId = resp.threadId)
                    => resp'.status = 404]_vars

\* a DELETE /thread/T succeeded after messages had been stored and removed
C2_Witness ==
    /\ DeleteDone
    /\ nextId - 1 > Len(messages)
    /\ StoredOf(messages, resp.userId, resp.threadId) = {}

ChatDone == resp.op = "chat" /\ resp.status = 200

\* GET /history/t by the user whose POST /chat on t has just answered
HistoryAfterChat ==
    /\ ChatDone
    /\ resp'.op = "history"
    /\ resp'.userId = resp.userId
    /\ resp'.threadId = resp.threadId

\* C3 as stated: GET /history right after a successful POST /chat returns
\* exactly the two messages of that chat call, user then assistant
C3_HistoryIsExactlyTheTwo ==
    [][HistoryAfterChat =>
         /\ resp'.status = 200
         /\ resp'.msgs = resp.msgs
         /\ resp.msgs[1].role = "user"
         /\ resp.msgs[2].role = "assistant"]_vars

\* C3 amended: GET /history right after a successful POST /chat returns all
\* stored messages of that user and thread, and its last two entries are
\* the two messages of that chat call, user then assistant
C3_HistoryEndsWithTheTwo ==
    [][HistoryAfterChat =>
         /\ resp'.status = 200
         /\ Len(resp'.msgs) >= 2
         /\ SubSeq(resp'.msgs, Len(resp'.msgs) - 1, Len(resp'.msgs))
              = resp.msgs
         /\ resp.msgs[1].role = "user"
         /\ resp.msgs[2].role = "assistant"
         /\ Range(resp'.msgs)
              = StoredOf(messages', resp.userId, resp.threadId)
         /\ Len(resp'.msgs)
               = Cardinality(StoredOf(messages', resp.userId,
                                      resp.threadId))]_vars

\* a history of three messages: an earlier message of the thread, then the
\* pair of the last chat call
C3_Witness ==
    /\ resp.op = "history" /\ resp.status = 200
    /\ Len(resp.msgs) = 3
    /\ resp.msgs[2].role = "user" /\ resp.msgs[2].id = nextId - 2
    /\ resp.msgs[3].role = "assistant" /\ resp.msgs[3].id = nextId - 1

\* C4: when no request is in flight, every stored message belongs to a
\* thread record of the same user
C4_MessagesHaveThreads ==
    AllIdle =>
        \A i \in 1..Len(messages) :
            OwnsThread(threads, messages[i].userId, messages[i].threadId)

\* C5: a step of a request authenticated as A leaves the threads and
\* messages of every other user as they are, and a response carries only
\* records of the user it answers
C5_NoCrossUserAccess ==
    [][/\ \A u \in UserIds :
            u # actor' =>
                /\ OwnedThreads(threads', u) = OwnedThreads(threads, u)
                /\ OwnedMessages(messages', u) = OwnedMessages(messages, u)
       /\ resp' # NoResp =>
            /\ resp'.userId = actor'
            /\ \A i \in 1..Len(resp'.msgs) :
                  resp'.msgs[i].userId = resp'.userId
            /\ \A i \in 1..Len(resp'.thrs) :
                  resp'.thrs[i].userId = resp'.userId]_vars

\* a user asked for a thread id that another user owns, who has messages
C5_Witness ==
    /\ resp.op \in {"getThread", "deleteThread", "history"}
    /\ \E u \in UserIds :
          /\ u # resp.userId
          /\ OwnsThread(threads, u, resp.threadId)
          /\ StoredOf(messages, u, resp.threadId) # {}

ThreadOps == {"getThread", "deleteThread"}

\* C6: GET and DELETE /thread/T by a caller without a thread T answer 404
\* "Thread not found" and change nothing, whether T is absent or owned by
\* another user; they go on only for a thread the caller owns
C6_SameNotFound ==
    [][/\ (resp'.op \in ThreadOps /\ resp'.status = 404) =>
            /\ resp' = To(resp'.token,
                          ErrorResp(resp'.op, resp'.userId, resp'.threadId,
                                    404, "Thread not found"))
            /\ ~OwnsThread(threads, resp'.userId, resp'.threadId)
            /\ threads' = threads
            /\ messages' = messages
       /\ \A s \in Slots :
            (req[s] = Idle /\ req'[s].op \in ThreadOps) =>
                OwnsThread(threads, req'[s].userId, req'[s].threadId)]_vars

\* a 404 for a thread id another user owns
C6_Witness ==
    /\ resp.op \in ThreadOps /\ resp.status = 404
    /\ \E u \in UserIds :
          u # resp.userId /\ OwnsThread(threads, u, resp.threadId)

\* C7: when the completion call of a chat request has failed, the
\* request's next step ends it with a 500, stores nothing and creates no
\* thread, and the user message it stored before the call is still there
C7_UpstreamFailure ==
    [][\A s \in Slots :
          (/\ req[s].op = "chat"
           /\ req[s].pc = "fetched"
           /\ req[s].openaiRes.kind # "ok"
           /\ req'[s] # req[s]) =>
              /\ req'[s] = Idle
              /\ resp'.op = "chat"
              /\ resp'.status = 500
              /\ messages' = messages
              /\ threads' = threads
              /\ req[s].userMsg \in Range(messages')
              /\ req[s].userMsg.role = "user"]_vars

\* a chat request answered 500 and left its user message without a thread
C7_Witness ==
    /\ resp.op = "chat" /\ resp.status = 500
    /\ resp.message \in {"OpenAI API error", "Chat error"}
    /\ \E i \in 1..Len(messages) :
          /\ messages[i].role = "user"
          /\ messages[i].id = nextId - 1
          /\ messages[i].userId = resp.userId
          /\ messages[i].threadId = resp.threadId
          /\ ~OwnsThread(threads, resp.userId, resp.threadId)

----------------------------------------------------------------------------
(* Properties of the token lifecycle *)

ProtectedOps == {"me", "chat", "history", "threads", "getThread",
                 "deleteThread", "createThread", "clear", "voice"}

\* an access token issued more than 15 minutes before t
ExpiredAccess(tok, t) == tok.secret = "access" /\ t - tok.iat > AccessTTL

\* C8: a request that arrives with an access token issued more than 15
\* minutes earlier is not admitted by any protected route, /voice included:
\* it is answered 401 at once and the store stays as it is
C8_ExpiredTokenRejected ==
    [][/\ \A s \in Slots :
            (req[s] = Idle /\ req'[s] # Idle) =>
                ~ExpiredAccess(req'[s].token, now)
       /\ (/\ resp' # NoResp
           /\ req' = req
           /\ resp'.op \in ProtectedOps
           /\ ExpiredAccess(resp'.token, now)) =>
              /\ resp'.status = 401
              /\ threads' = threads
              /\ messages' = messages]_vars

\* the refresh token of the call is missing, not signed with the refresh
\* secret, or expired
BadRefreshToken(tok, t) ==
    \/ tok = NoToken
    \/ tok.secret # "refresh"
    \/ t >= tok.iat + RefreshTTL

\* C9: POST /auth/refresh with a missing, wrongly signed or expired refresh
\* token answers 401 and sets no cookie; it sets the two cookies only for a
\* valid refresh token of an existing user
C9_BadRefreshIs401 ==
    resp.op = "refresh" =>
        /\ BadRefreshToken(resp.token, now) =>
              resp.status = 401 /\ resp.setCookies = {}
        /\ resp.setCookies # {} =>
              /\ ~BadRefreshToken(resp.token, now)
              /\ \E x \in users : x.id = resp.token.userId
              /\ resp.setCookies = BothCookies

\* a refresh call with a refresh token of a user that still exists
RefreshOfUser ==
    /\ resp'.op = "refresh"
    /\ resp'.token.secret = "refresh"
    /\ \E x \in users : x.id = resp'.token.userId

Superseded(tok) == \E p \in rotated : p.old = tok

\* C10 as stated: a refresh token is accepted until it expires or a refresh
\* call has superseded it, and not after that
C10_SupersededRejected ==
    [][RefreshOfUser =>
         (resp'.status = 200
            <=> /\ now < resp'.token.iat + RefreshTTL
                /\ ~Superseded(resp'.token))]_vars

\* C10 amended: a refresh token of an existing user is accepted from its
\* issue until 7 days after it, also after a refresh call has issued a new
\* pair in its place
C10_AcceptedUntilExpiry ==
    [][RefreshOfUser =>
         (resp'.status = 200 <=> now < resp'.token.iat + RefreshTTL)]_vars

\* a refresh token is accepted although an earlier refresh call replaced it
C10_Witness ==
    /\ resp.op = "refresh" /\ resp.status = 200
    /\ \E p \in rotated : p.old = resp.token /\ p.new.iat < now

----------------------------------------------------------------------------
(* Properties of registration and login *)

\* the spellings of one address
Spellings == {{"alice@example.com", "ALICE@example.com"},
              {"dave@example.com", "DAVE@example.com"}}

EqualIgnoringCase(a, b) == a = b \/ \E S \in Spellings : {a, b} \subseteq S

\* a user record holds this address in some spelling
Registered(coll, email) == \E x \in coll : EqualIgnoringCase(x.email, email)

\* all three fields of the body are present
Complete(body) == body.name # "" /\ body.email # "" /\ body.password # ""

\* C11: a registration that arrives when a user record already holds its
\* email in any letter case is not taken further: it is answered 400
\* "Email already registered" and no record is created; and in every state,
\* also after registrations that ran concurrently, no two user records hold
\* the same email ignoring case
C11_OneUserPerEmail ==
    /\ [](\A x \in users, y \in users :
             EqualIgnoringCase(x.email, y.email) => x = y)
    /\ [][/\ \A s \in Slots :
               (req[s] = Idle /\ req'[s].op = "register") =>
                   ~Registered(users, req'[s].body.email)
          /\ (/\ resp'.op = "register"
              /\ req' = req
              /\ Complete(resp'.body)
              /\ Registered(users, resp'.body.email)) =>
                 /\ resp'.status = 400
                 /\ resp'.message = "Email already registered"
                 /\ resp'.setCookies = {}
                 /\ users' = users]_vars

\* a registration was refused because an earlier registration had stored
\* the same address in another spelling
C11_Witness ==
    /\ resp.op = "register" /\ resp.status = 400
    /\ resp.message = "Email already registered"
    /\ \E x \in users : /\ x.id \notin UserIds
                        /\ x.email # resp.body.email
                        /\ EqualIgnoringCase(x.email, resp.body.email)

\* the body's password is not the one of the record with the body's email
WrongPassword(coll, body) ==
    \E x \in coll : /\ EqualIgnoringCase(x.email, body.email)
                    /\ x.password # <<"bcrypt", body.password>>

\* C12: a login with an email that no record holds and a login with the
\* wrong password for a registered email get the same response, status 400
\* with the message "Invalid credentials", and no cookie is set
C12_SameInvalidCredentials ==
    (/\ resp.op = "login"
     /\ resp.body.email # "" /\ resp.body.password # ""
     /\ \/ ~Registered(users, resp.body.email)
        \/ WrongPassword(users, resp.body)) =>
        /\ resp = ToBody(resp.body, ErrorResp("login", "", "", 400,
                                              "Invalid credentials"))
        /\ resp.setCookies = {}

\* a login with the wrong password for a registered email was refused
C12_Witness ==
    /\ resp.op = "login" /\ resp.status = 400
    /\ resp.body.password # ""
    /\ WrongPassword(users, resp.body)

----------------------------------------------------------------------------
(* Properties of thread creation *)

\* POST /thread answered at once to an authenticated caller with a valid
\* body
CreateAnswered ==
    /\ resp'.op = "createThread"
    /\ req' = req
    /\ resp'.userId # ""
    /\ resp'.status # 400

\* C13: POST /thread for a threadId the caller already has a thread for
\* returns that thread as stored, title included, and writes nothing, so
\* any number of repetitions leaves the store as the first call left it;
\* the handler never goes on to Thread.create for such a call
C13_CreateThreadIdempotent ==
    [][/\ \A s \in Slots :
            (req[s] = Idle /\ req'[s].op = "createThread") =>
                ~OwnsThread(threads, req'[s].userId, req'[s].threadId)
       /\ (/\ CreateAnswered
           /\ OwnsThread(threads, resp'.userId, resp'.threadId)) =>
              /\ resp'.status = 201
              /\ Len(resp'.thrs) = 1
              /\ resp'.thrs[1] \in OwnedThreads(threads, resp'.userId)
              /\ resp'.thrs[1].threadId = resp'.threadId
              /\ threads' = threads
              /\ messages' = messages]_vars

\* POST /thread returned an existing thread whose title, derived by an
\* earlier chat, is not the title the call carried
C13_Witness ==
    /\ resp.op = "createThread" /\ resp.status = 201
    /\ Len(resp.thrs) = 1
    /\ resp.thrs[1].title \notin ThreadTitles
    /\ resp.thrs[1] \in OwnedThreads(threads, resp.userId)

\* C14: in every state, also while createThread and chat requests of one
\* or two users with the same threadId interleave, no two Thread records
\* have the same threadId
C14_UniqueThreadId ==
    \A i \in 1..Len(threads), j \in 1..Len(threads) :
        threads[i].threadId = threads[j].threadId => i = j

\* two requests of one user raced for a threadId: the Thread.create of the
\* second was refused although its own lookup had found no thread
C14_Witness ==
    /\ resp.op \in {"chat", "createThread"} /\ resp.status = 500
    /\ resp.message \in {"Chat error", "Failed to create thread"}
    /\ OwnsThread(threads, resp.userId, resp.threadId)
    /\ \E i \in 1..Len(messages) : /\ messages[i].role = "assistant"
                                   /\ messages[i].userId = resp.userId

----------------------------------------------------------------------------
(* Properties of error handling *)

\* C15: every request is answered exactly once: no handler ends without a
\* response, a step that ends a request sends one response and a step that
\* leaves it in flight sends none, and a request whose store call fails is
\* answered 500
C15_EveryRequestAnswered ==
    /\ [](\A s \in Slots : req[s].pc # "unhandled")
    /\ [][\A s \in Slots :
            /\ (req[s] # Idle /\ req'[s] = Idle) => resp'.status # 0
            /\ (req'[s] # Idle /\ req'[s] # req[s]) => resp' = NoResp
            /\ StoreError(s) => resp'.status = 500]_vars

----------------------------------------------------------------------------
(* Properties of the session check *)

Calls(log, name) == Cardinality({i \in DOMAIN log : log[i].call = name})

Unauthorized(entry) == entry.call = "me" /\ entry.out = "unauthorized"

\* C16: the session check calls who-am-I at most twice and refresh at most
\* once, and refresh only after who-am-I answered 401 twice in a row; when
\* the refresh call succeeds the user is the refreshed identity, when it
\* fails the user is the cached identity if there is one, nobody otherwise
C16_SessionCheckCalls ==
    /\ [](LET log == client.checkLog
          IN  /\ Calls(log, "me") <= 2
              /\ Calls(log, "refresh") <= 1
              /\ \A i \in DOMAIN log :
                    log[i].call = "refresh" =>
                        /\ i = 3
                        /\ Unauthorized(log[1])
                        /\ Unauthorized(log[2]))
    /\ [][client.check = "refresh" /\ client'.check # "refresh" =>
            /\ client'.check = "done"
            /\ client'.user =
                  IF client'.checkLog[3].out = "ok" THEN RefreshedUser
                  ELSE IF client.stored # NoUser THEN client.stored
                  ELSE NoUser]_vars

C16_Witness ==
    /\ client.check = "done"
    /\ Len(client.checkLog) = 3
    /\ client.checkLog[3] = [call |-> "refresh", out |-> "unauthorized"]
    /\ client.user = CachedUser

\* C17: the session check ends with loading false, whatever the outcomes
\* of its who-am-I and refresh calls, when each call returns; from then on
\* the page is not in the checking state again
C17_SessionCheckEnds ==
    /\ <>[](client.check = "done" /\ ~client.loading)
    /\ [](client.check = "done" => ~client.loading)

C17_Witness ==
    /\ client.check = "done"
    /\ ~client.loading
    /\ client.user = NoUser
    /\ Len(client.checkLog) = 2
    /\ client.checkLog[2] = [call |-> "me", out |-> "network"]

----------------------------------------------------------------------------
(* Properties of the authenticated fetches, logout and the clear dialog *)

\* C18: every authenticated fetch of the page outside the session check
\* (thread list, thread switch, thread delete, text chat, clear-all, chat
\* save after a voice turn) answers a 401 by calling refresh once; it then
\* repeats the request once if the refresh call succeeded, and otherwise
\* calls logout and shows the session-expired notice
C18_FetchRecoversFrom401 ==
    /\ [](Calls(client.flow.log, "refresh") <= 1 /\ Len(client.flow.log) <= 3)
    /\ [][/\ ResponseReturns("unauthorized")
                 => /\ client'.flow.pc = "refresh"
                    /\ client'.flow.log[2] = Call("refresh")
          /\ RefreshReturns("ok")
                 => /\ client'.flow.pc = "retry"
                    /\ client'.flow.log[3] = Call(client.flow.op)
          /\ \A out \in CallOutcomes \ {"ok"} :
                RefreshReturns(out)
                   => /\ client'.flow.pc = "idle"
                      /\ client'.logout = "calling"
                      /\ client'.notice = SessionExpired]_vars

\* C19: logout of the page ends with user null and the localStorage entry
\* removed, whether the logout call of the server succeeded, answered an
\* error status or was never delivered
C19_LogoutClearsIdentity ==
    [][client.logout = "calling" /\ client'.logout # "calling" =>
          /\ client'.logout \in LogoutOutcomes
          /\ client'.user = NoUser
          /\ client'.stored = NoUser]_vars

C19_Witness ==
    /\ client.logout = "network"
    /\ client.checkLog[1] = [call |-> "me", out |-> "ok"]
    /\ client.user = NoUser
    /\ client.stored = NoUser

ClearRequested(c) ==
    c.flow.pc = "request" /\ c.flow.op = "confirmClearChats"

\* C20: the page sends DELETE /thread/clear only when the confirmation
\* dialog is shown and its confirm button is pressed; opening the dialog
\* or cancelling it sends no request and changes no chat state; the dialog
\* opens only for a logged-in user
C20_ClearOnlyAfterConfirm ==
    [][/\ (~ClearRequested(client) /\ ClearRequested(client'))
             => /\ client.showConfirmModal
                /\ client'.isClearing
       /\ (~client.showConfirmModal /\ client'.showConfirmModal)
             => /\ client.user # NoUser
                /\ client'.flow = client.flow
                /\ client'.prevChats = client.prevChats
       /\ (/\ client.showConfirmModal
           /\ ~client.isClearing
           /\ ~client'.showConfirmModal)
             => /\ client'.flow = client.flow
                /\ client'.prevChats = client.prevChats]_vars

C20_Witness ==
    /\ client.flow.pc = "idle"
    /\ ~client.showConfirmModal
    /\ client.prevChats = 0
    /\ client.notice = "All chat history cleared!"

----------------------------------------------------------------------------
(* Properties of POST /chat *)

\* C21: a POST /chat without message text, without thread identifier, or
\* with a message text that is empty after trimming is answered 400 and
\* stores nothing; no stored message has empty trimmed content
C21_BlankChatIs400 ==
    /\ [](\A i \in DOMAIN messages : Trim(messages[i].content) # <<>>)
    /\ [][\A cred \in SessionCreds, t \in BodyThreadIds, m \in TitleTexts :
            (ChatStart(1, cred, t, m) /\ (t = "" \/ Trim(m) = <<>>))
               => /\ resp'.status = 400
                  /\ messages' = messages
                  /\ threads' = threads]_vars

\* the words of a message: its non-empty pieces between blanks
Words(m) == SelectSeq(Split(m), LAMBDA w : w # <<>>)

FirstWords(m) == Join(Slice(Words(m), TitleWords))

HasThread(coll, u, t) ==
    \E x \in Range(coll) : x.userId = u /\ x.threadId = t

\* the remote call of the chat request in slot s has succeeded and the
\* request ends in this step
ChatEndsAfterReply(s) ==
    /\ req[s].op = "chat"
    /\ req[s].pc \in {"find", "create"}
    /\ req'[s] = Idle

\* C22: after a POST /chat whose remote call succeeded a Thread record of
\* (userId, threadId) exists; a new one has the first five words of the
\* user's message as its title, an existing one keeps its title
C22_ChatLeavesTitledThread ==
    [][\A s \in Slots :
          ChatEndsAfterReply(s) =>
              LET u == req[s].userId
                  t == req[s].threadId
              IN  /\ HasThread(threads', u, t)
                  /\ IF HasThread(threads, u, t)
                     THEN threads' = threads
                     ELSE threads' = Append(threads,
                                            [threadId |-> t, userId |-> u,
                                             title |->
                                                FirstWords(req[s].text)])]_vars

\* C23: under any interleaving of two POST /chat requests, each request
\* whose remote call succeeded is answered 200 with its reply and its own
\* two new message records
C23_ConcurrentChatsSucceed ==
    [][\A s \in Slots :
          ChatEndsAfterReply(s) =>
              /\ resp'.status = 200
              /\ resp'.reply = req[s].reply
              /\ resp'.msgs = <<req[s].userMsg, req[s].botMsg>>
              /\ req[s].userMsg \in Range(messages')
              /\ req[s].botMsg \in Range(messages')]_vars

----------------------------------------------------------------------------
(* Properties of POST /voice *)

UploadedFiles == {f \in uploads : f[1] = "upload"}

\* C24: every POST /voice that received an audio file and is answered
\* (normal reply, fallback reply or error) has scheduled the deletion of
\* its own upload, so no upload of an answered request stays for ever
C24_UploadCleanupScheduled ==
    /\ [][\A s \in Slots :
            (req[s].op = "voice" /\ req'[s] = Idle)
               => req[s].file \in timers']_vars
    /\ [](\A f \in UploadedFiles : f \in timers \/ f \in InFlightFiles)

\* C25: two voice requests being handled never share a file of the
\* uploads directory: their uploads have different names, and the reply
\* file a request writes is not one that is already there
C25_VoiceFilesDistinct ==
    /\ [](\A s1, s2 \in Slots :
            (s1 # s2 /\ req[s1].op = "voice" /\ req[s2].op = "voice")
               => req[s1].file # req[s2].file)
    /\ [][\A f \in uploads' \ uploads : f[1] # "upload" =>
            \A g \in uploads : g[1] = "upload" \/ g # f]_vars

----------------------------------------------------------------------------
(* Properties of the page after logout *)

\* C26: once logout has set the user to null the user stays null, and the
\* localStorage entry stays removed, until login() is called: no response
\* of the session check that was in flight sets them afterwards
C26_LoggedOutUntilLogin ==
    [][(/\ client.user = NoUser
        /\ client.logout # "idle"
        /\ (client'.user # NoUser \/ client'.stored # NoUser))
          => /\ client'.user = FormUser
             /\ client'.stored = FormUser]_vars

\* nothing the page has sent is still to be answered
ClientQuiet ==
    /\ client.check = "done"
    /\ client.flow.pc = "idle"
    /\ client.logout # "calling"
    /\ client.pending = {}

\* C27: while the user is null and no request of the page is in flight,
\* the thread list and the chat shown are empty: a thread-list or
\* thread-messages response that arrives after the user became null does
\* not fill them again
C27_EmptyWhenLoggedOut ==
    [](client.user = NoUser /\ ClientQuiet
          => client.allThreads = 0 /\ client.prevChats = 0)

\* C28: when the session check has fallen back to the cached identity
\* while the server rejects the access and the refresh token, and the
\* server answers, the page ends up anonymous, user null and the
\* localStorage entry removed, through the 401, refresh, logout path of
\* the thread fetch that the change of user starts
C28_StaleIdentityDropped ==
    (client.check = "done" /\ client.user = CachedUser)
        ~> (client.user = NoUser /\ client.stored = NoUser)

C28_Witness ==
    /\ client.check = "done"
    /\ client.checkLog[3] = [call |-> "refresh", out |-> "unauthorized"]
    /\ client.user = NoUser
    /\ client.stored = NoUser
    /\ client.logout = "ok"
    /\ client.notice = SessionExpired

----------------------------------------------------------------------------
(* Properties of the chat the page shows *)

\* the text chat in flight gets an error response of POST /chat
ChatErrorArrives ==
    /\ client.flow.op = "getReply"
    /\ \/ ResponseReturns("error")
       \/ RetryReturns("error")
       \/ RetryReturns("unauthorized")

\* C30: the text chat appends an assistant entry only when the server
\* returned a reply: for an error response of POST /chat nothing is
\* appended and the reply shown does not change; its loading flag is false
\* again whenever the function has ended
C30_NoEntryForErrorResponse ==
    /\ [](client.flow.op # "getReply" => ~client.chatLoading)
    /\ [][ChatErrorArrives =>
            /\ client'.prevChats = client.prevChats
            /\ client'.reply = client.reply]_vars

\* C29: the assistant reply a voice turn shows is the assistant message
\* stored for the turn: the POST /chat that saves the turn stores that
\* reply and makes no remote completion call of its own
C29_VoiceReplyIsStored ==
    [][client.flow.op = "voiceSave" =>
          /\ \A out \in TurnReplies : ~ChatFetch(1, out)
          /\ (req[1].pc = "fetched" /\ req'[1].pc = "find")
                => req'[1].botMsg.content = client.reply]_vars

====
